---- MODULE Spec2Model ----
(***************************************************************************)
(* Model of the JSON user store (user-control.js) and of the Express       *)
(* handlers that use it (server.js).                                       *)
(*                                                                         *)
(* The backing file usuarios.json is a sequence of tokens; JSON.stringify  *)
(* and JSON.parse are the conversions between a record array and tokens.   *)
(* The lock is the proper-lockfile lock taken by comLock: retried, and     *)
(* broken by an acquirer once it is stale.                                 *)
(***************************************************************************)
EXTENDS Integers, Sequences, FiniteSets, TLC

\* ------------------------------------------------------------------ bounds
MaxReqs == 2        \* requests (or direct store calls) in one behaviour
MaxCreates == 2     \* ids the generator hands out

\* ------------------------------------------------------- program constants
Retries == 5        \* retries: { retries: 5, ... }
ListDefault == 100  \* if (isNaN(num)) num = 100
ListAll == 10000    \* num = 10000 when count is 0
ListMax == 1000     \* num = 1000 when count > 1000

Procs == 1..MaxReqs
Undef == 0          \* JavaScript undefined (a field the object lacks)
NaN == -999         \* parseInt of an absent or non-numeric :count
Names == {1, 2}
NoProc == 0

\* ------------------------------------------------------------------ records
R(i, n) == [id |-> i, nome |-> n]

\* The collections found in usuarios.json at start-up, and their ids.
InitUsers == <<R(1, 3), R(2, 3)>>
FirstFreshId == Len(InitUsers) + 1

\* ------------------------------------------------------------------- tokens
T(k) == [k |-> k, v |-> 0]
F(k, v) == [k |-> k, v |-> v]
IsWs(t) == t.k = "ws"

\* JSON.stringify of one user object: a field whose value is undefined is
\* left out of the text.
StringifyRecord(r) ==
    <<T("{")>>
    \o (IF r.id # Undef THEN <<F("id", r.id)>> ELSE <<>>)
    \o (IF r.nome # Undef THEN <<F("nome", r.nome)>> ELSE <<>>)
    \o <<T("}")>>

RECURSIVE StringifyItems(_)
StringifyItems(s) ==
    IF s = <<>> THEN <<>>
    ELSE StringifyRecord(Head(s)) \o <<T("ws")>> \o StringifyItems(Tail(s))

\* A mutation of JSON.stringify: the last element is not serialized.
StringifyDropsLast(usuarios) ==
    IF usuarios = <<>> THEN <<T("["), T("]")>>
    ELSE <<T("["), T("ws")>>
         \o StringifyItems(SubSeq(usuarios, 1, Len(usuarios) - 1))
         \o <<T("]")>>

\* JSON.stringify(usuarios, null, 2): "[]" for the empty array, otherwise
\* the elements in order, with line breaks between them.
Stringify(usuarios) ==
    IF usuarios = <<>> THEN <<T("["), T("]")>>
    ELSE <<T("["), T("ws")>> \o StringifyItems(usuarios) \o <<T("]")>>

\* dados.trim(): leading and trailing whitespace removed.
RECURSIVE TrimLeft(_)
TrimLeft(s) == IF s # <<>> /\ IsWs(Head(s)) THEN TrimLeft(Tail(s)) ELSE s
RECURSIVE TrimRight(_)
TrimRight(s) ==
    IF s # <<>> /\ IsWs(s[Len(s)]) THEN TrimRight(SubSeq(s, 1, Len(s) - 1)) ELSE s
Trim(s) == TrimRight(TrimLeft(s))

\* JSON.parse restricted to arrays of user objects.  st is the parser
\* state, acc the elements read, cur the object being read.  The result is
\* [ok |-> FALSE] on a SyntaxError.
ParseError == [ok |-> FALSE, val |-> <<>>]
RECURSIVE ParseFrom(_, _, _, _)
ParseFrom(s, st, acc, cur) ==
    IF s = <<>>
    THEN IF st = "end" THEN [ok |-> TRUE, val |-> acc] ELSE ParseError
    ELSE LET t == Head(s)
             rest == Tail(s)
         IN  IF IsWs(t) THEN ParseFrom(rest, st, acc, cur)
             ELSE CASE st = "start" /\ t.k = "[" -> ParseFrom(rest, "arr", acc, cur)
                    [] st = "arr" /\ t.k = "{" -> ParseFrom(rest, "obj", acc, R(Undef, Undef))
                    [] st = "arr" /\ t.k = "]" -> ParseFrom(rest, "end", acc, cur)
                    [] st = "obj" /\ t.k = "id" ->
                         ParseFrom(rest, "obj", acc, [cur EXCEPT !.id = t.v])
                    [] st = "obj" /\ t.k = "nome" ->
                         ParseFrom(rest, "obj", acc, [cur EXCEPT !.nome = t.v])
                    [] st = "obj" /\ t.k = "}" -> ParseFrom(rest, "arr", Append(acc, cur), cur)
                    [] OTHER -> ParseError
Parse(texto) == ParseFrom(texto, "start", <<>>, R(Undef, Undef))

\* What the file is worth to a reader: empty, an array, or malformed.
WellFormed(f) == Trim(f) = <<>> \/ Parse(Trim(f)).ok
Stored(f) == IF Trim(f) = <<>> \/ ~Parse(Trim(f)).ok THEN <<>> ELSE Parse(Trim(f)).val

\* ------------------------------------------------------- lerUsuarios (pure)
\* A mutation of the selection: a negative limit is clamped to "no limit".
SelecionarClampsNegative(arr, num) ==
    IF num > 0 /\ num <= Len(arr) THEN SubSeq(arr, 1, num) ELSE arr

\* The selection on the parsed array: arr.slice(0, num), arr, or [].
Selecionar(arr, num) ==
    IF num > 0 /\ num <= Len(arr) THEN SubSeq(arr, 1, num)
    ELSE IF num > Len(arr) THEN arr
    ELSE IF num = 0 THEN arr
    ELSE <<>>

\* A mutation of the action of lerUsuarios: a SyntaxError of JSON.parse is
\* not caught.
LerCorpoParseThrows(f, num, readOk) ==
    IF ~readOk THEN [threw |-> FALSE, val |-> <<>>, io |-> "readfail"]
    ELSE IF Trim(f) = <<>> THEN [threw |-> FALSE, val |-> <<>>, io |-> "empty"]
    ELSE IF ~Parse(Trim(f)).ok THEN [threw |-> TRUE, val |-> <<>>, io |-> "parsefail"]
    ELSE [threw |-> FALSE, val |-> Selecionar(Parse(Trim(f)).val, num), io |-> "ok"]

\* A mutation of the action of lerUsuarios: empty text is handed to
\* JSON.parse, whose SyntaxError escapes.
LerCorpoEmptyThrows(f, num, readOk) ==
    IF ~readOk THEN [threw |-> FALSE, val |-> <<>>, io |-> "readfail"]
    ELSE IF Trim(f) = <<>> THEN [threw |-> TRUE, val |-> <<>>, io |-> "empty"]
    ELSE IF ~Parse(Trim(f)).ok THEN [threw |-> FALSE, val |-> <<>>, io |-> "parsefail"]
    ELSE [threw |-> FALSE, val |-> Selecionar(Parse(Trim(f)).val, num), io |-> "ok"]

\* The action lerUsuarios runs under the lock: what it yields for file
\* content f, limit num, and fs.readFile succeeding or not.  io names the
\* branch taken.
LerCorpo(f, num, readOk) ==
    IF ~readOk THEN [threw |-> FALSE, val |-> <<>>, io |-> "readfail"]
    ELSE IF Trim(f) = <<>> THEN [threw |-> FALSE, val |-> <<>>, io |-> "empty"]
    ELSE IF ~Parse(Trim(f)).ok THEN [threw |-> FALSE, val |-> <<>>, io |-> "parsefail"]
    ELSE [threw |-> FALSE, val |-> Selecionar(Parse(Trim(f)).val, num), io |-> "ok"]

\* ------------------------------------------------------- handlers (pure)
\* GET /list-users/:count? : the limit handed to lerUsuarios.
ListNum(count) ==
    IF count = NaN THEN ListDefault
    ELSE IF count = 0 THEN ListAll
    ELSE IF count < 0 THEN ListDefault
    ELSE IF count > ListMax THEN ListMax
    ELSE count

\* usuarios.findIndex((u) => u.id === id): 0-based, -1 when absent.
FindIndex(usuarios, id) ==
    IF \E i \in 1..Len(usuarios) : usuarios[i].id = id
    THEN (CHOOSE i \in 1..Len(usuarios) :
            /\ usuarios[i].id = id
            /\ \A j \in 1..(i - 1) : usuarios[j].id # id) - 1
    ELSE -1

\* A mutation of the update: the id is assigned along with the name.
AtualizarTrocaId(usuarios, idx, nome) ==
    [usuarios EXCEPT ![idx + 1].nome = nome, ![idx + 1].id = nome + 1]

\* A mutation of the update: no field is assigned.
AtualizarNada(usuarios, idx, nome) == usuarios

\* if (req.body.nome) usuarios[usuarioIndex].nome = req.body.nome
Atualizar(usuarios, idx, nome) ==
    IF nome # Undef THEN [usuarios EXCEPT ![idx + 1].nome = nome] ELSE usuarios

\* A mutation of the removal: nothing passes the filter.
RemoverTudo(usuarios, id) == <<>>

\* usuarios.filter((u) => u.id !== id)
RECURSIVE Remover(_, _)
Remover(usuarios, id) ==
    IF usuarios = <<>> THEN <<>>
    ELSE IF Head(usuarios).id # id
         THEN <<Head(usuarios)>> \o Remover(Tail(usuarios), id)
         ELSE Remover(Tail(usuarios), id)

\* -------------------------------------------------------------------- state
VARIABLES
    file,        \* content of usuarios.json, a token sequence
    lockHolder,  \* the call whose lock directory exists, or NoProc
    lockStale,   \* the lock is older than the stale threshold
    token,       \* per call: "none", "held", or "lost" (broken or removed by another)
    pc,          \* per call: "idle", "acq", "cs", "mid", "rel", "done"
    phase,       \* per call: the store operation in progress, "read" or "write"
    req,         \* per call: the request being served
    attempts,    \* per call: failed acquisition attempts of the current comLock call
    usuarios,    \* per call: the handler's local array / the value read
    status,      \* per call: how the request ended
    nextId,      \* the next value of the id generator
    call,        \* per call: what the current comLock call has done
    everBroken,  \* some lock was broken as stale
    tornWrite,   \* some fs.writeFile failed after truncating the file
    lastWrite    \* the last write whose action finished

vars == <<file, lockHolder, lockStale, token, pc, phase, req, attempts, usuarios,
          status, nextId, call, everBroken, tornWrite, lastWrite>>

\* ----------------------------------------------------------------- requests
TargetIds == {1, FirstFreshId}
Limits == {-1, 0, 1, 2, 3}
Counts == {NaN}
WriteInputs == {<<>>, <<R(2, 2)>>, <<R(2, 1), R(1, Undef)>>}
Req(op, num, id, nome, recs) ==
    [op |-> op, num |-> num, id |-> id, nome |-> nome, recs |-> recs]
NoReq == Req("none", 0, 0, Undef, <<>>)
\* The calls that are made to overlap.
ConcurrentRequests ==
    {Req("read", 0, 0, Undef, <<>>), Req("write", 0, 0, Undef, <<R(2, 1), R(1, Undef)>>)}
\* Direct calls of the two exported store functions.
StoreRequests ==
    {Req("read", n, 0, Undef, <<>>) : n \in Limits}
    \cup {Req("write", 0, 0, Undef, x) : x \in WriteInputs}
\* Requests to the routes of server.js.
HandlerRequests ==
    {Req("list", c, 0, Undef, <<>>) : c \in Counts}
    \cup {Req("create", 0, 0, 1, <<>>)}
    \cup {Req("update", 0, 1, n, <<>>) : n \in Names}
    \cup {Req("update", 0, FirstFreshId, 1, <<>>)}
    \cup {Req("delete", 0, i, Undef, <<>>) : i \in TargetIds}

\* The limit the read of request r passes to lerUsuarios.
NumOf(r) ==
    IF r.op = "read" THEN r.num
    ELSE IF r.op = "list" THEN ListNum(r.num)
    ELSE 0

NoWrite == [some |-> FALSE, recs |-> <<>>, ok |-> FALSE]
\* A comLock call that has not yet done anything.
NewCall ==
    [acquired |-> FALSE, ran |-> FALSE, releases |-> 0, relFailed |-> FALSE,
     threw |-> FALSE, io |-> "none", quiet |-> TRUE, prior |-> "none"]

Init ==
    /\ file \in {<<T("ws")>>, Stringify(InitUsers)}
    /\ lockHolder = NoProc
    /\ lockStale = FALSE
    /\ token = [p \in Procs |-> "none"]
    /\ pc = [p \in Procs |-> "idle"]
    /\ phase = [p \in Procs |-> "read"]
    /\ req = [p \in Procs |-> NoReq]
    /\ attempts = [p \in Procs |-> 0]
    /\ usuarios = [p \in Procs |-> <<>>]
    /\ status = [p \in Procs |-> "none"]
    /\ nextId = FirstFreshId
    /\ call = [p \in Procs |-> NewCall]
    /\ everBroken = FALSE
    /\ tornWrite = FALSE
    /\ lastWrite = NoWrite

\* ------------------------------------------------------------------ comLock
IsDirect(r) == r.op \in {"read", "write"}
InFlightCreates ==
    Cardinality({p \in Procs : req[p].op = "create" /\ phase[p] = "read"
                                /\ pc[p] \in {"acq", "cs", "rel", "ret"}})

\* A request arrives (or lerUsuarios / salvarUsuarios is called directly)
\* and enters its first comLock call.
StartRequest(p, r) ==
    /\ pc[p] = "idle"
    /\ p > 1 => pc[p - 1] # "idle"
    /\ r.op = "create" => nextId + InFlightCreates < FirstFreshId + MaxCreates
    /\ req' = [req EXCEPT ![p] = r]
    /\ phase' = [phase EXCEPT ![p] = IF r.op = "write" THEN "write" ELSE "read"]
    /\ usuarios' = [usuarios EXCEPT ![p] = r.recs]
    /\ pc' = [pc EXCEPT ![p] = "acq"]
    /\ attempts' = [attempts EXCEPT ![p] = 0]
    /\ status' = [status EXCEPT ![p] = "pending"]
    /\ call' = [call EXCEPT ![p] = NewCall]
    /\ UNCHANGED <<file, lockHolder, lockStale, token, nextId, everBroken,
                   tornWrite, lastWrite>>

\* A mutation of the lock: the lock directory is not looked at.
LockOutcomeIgnoresHolder(holder, stale) == "free"

\* What one attempt of lockfile.lock finds: no lock, a lock older than
\* stale (which it breaks), or a live lock (ELOCKED, retried).
LockOutcome(holder, stale) ==
    IF holder = NoProc THEN "free"
    ELSE IF stale THEN "stale"
    ELSE "held"

\* lockfile.lock resolves: the lock is ours and fn is about to run.
Acquire(p) ==
    /\ pc[p] = "acq"
    /\ LockOutcome(lockHolder, lockStale) = "free"
    /\ lockHolder' = p
    /\ lockStale' = FALSE
    /\ token' = [token EXCEPT ![p] = "held"]
    /\ pc' = [pc EXCEPT ![p] = "cs"]
    /\ call' = [call EXCEPT ![p].acquired = TRUE]
    /\ attempts' = [attempts EXCEPT ![p] = 0]
    /\ UNCHANGED <<file, phase, req, usuarios, status, nextId, everBroken, tornWrite, lastWrite>>

\* A mutation of the lock: the holder of a lock that is broken is stopped,
\* its action abandoned with an error.
BreakStaleAbortsHolder(p) ==
    /\ pc[p] = "acq"
    /\ LockOutcome(lockHolder, lockStale) = "stale"
    /\ token' = [token EXCEPT ![lockHolder] = "none", ![p] = "held"]
    /\ lockHolder' = p
    /\ lockStale' = FALSE
    /\ everBroken' = TRUE
    /\ pc' = [pc EXCEPT ![p] = "cs", ![lockHolder] = "ret"]
    /\ call' = [call EXCEPT ![p].acquired = TRUE, ![lockHolder].threw = TRUE]
    /\ attempts' = [attempts EXCEPT ![p] = 0]
    /\ UNCHANGED <<file, phase, req, usuarios, status, nextId, tornWrite, lastWrite>>

\* The lock found is stale: it is removed and taken, whatever its holder
\* is doing.
BreakStale(p) ==
    /\ pc[p] = "acq"
    /\ LockOutcome(lockHolder, lockStale) = "stale"
    /\ token' = [token EXCEPT ![lockHolder] = "lost", ![p] = "held"]
    /\ lockHolder' = p
    /\ lockStale' = FALSE
    /\ everBroken' = TRUE
    /\ pc' = [pc EXCEPT ![p] = "cs"]
    /\ call' = [call EXCEPT ![p].acquired = TRUE]
    /\ attempts' = [attempts EXCEPT ![p] = 0]
    /\ UNCHANGED <<file, phase, req, usuarios, status, nextId, tornWrite, lastWrite>>

\* A mutation of the retries: one more retry is scheduled than asked for.
RetryOnceMore(p) ==
    /\ pc[p] = "acq"
    /\ LockOutcome(lockHolder, lockStale) = "held"
    /\ attempts[p] < Retries + 1
    /\ attempts' = [attempts EXCEPT ![p] = attempts[p] + 1]
    /\ UNCHANGED <<file, lockHolder, lockStale, token, pc, phase, req, usuarios,
                   status, nextId, call, everBroken, tornWrite, lastWrite>>

\* The lock is held and live: the attempt fails and another is scheduled.
Retry(p) ==
    /\ pc[p] = "acq"
    /\ LockOutcome(lockHolder, lockStale) = "held"
    /\ attempts[p] < Retries
    /\ attempts' = [attempts EXCEPT ![p] = attempts[p] + 1]
    /\ UNCHANGED <<file, lockHolder, lockStale, token, pc, phase, req, usuarios,
                   status, nextId, call, everBroken, tornWrite, lastWrite>>

\* A mutation of comLock: fn is run although lockfile.lock rejected.
GiveUpRunsAction(p) ==
    /\ pc[p] = "acq"
    /\ LockOutcome(lockHolder, lockStale) = "held"
    /\ attempts[p] = Retries
    /\ attempts' = [attempts EXCEPT ![p] = attempts[p] + 1]
    /\ pc' = [pc EXCEPT ![p] = "cs"]
    /\ UNCHANGED <<file, lockHolder, lockStale, token, phase, req, usuarios,
                   status, nextId, call, everBroken, tornWrite, lastWrite>>

\* The attempt after the last retry fails too: lockfile.lock rejects,
\* release stays undefined, the finally block does nothing and comLock
\* rethrows.
GiveUp(p) ==
    /\ pc[p] = "acq"
    /\ LockOutcome(lockHolder, lockStale) = "held"
    /\ attempts[p] = Retries
    /\ attempts' = [attempts EXCEPT ![p] = attempts[p] + 1]
    /\ call' = [call EXCEPT ![p].threw = TRUE]
    /\ pc' = [pc EXCEPT ![p] = "ret"]
    /\ UNCHANGED <<file, lockHolder, lockStale, token, phase, req, usuarios,
                   status, nextId, everBroken, tornWrite, lastWrite>>

\* A mutation of the lock: no lock is ever taken for stale.
LockNeverStale ==
    /\ lockHolder # NoProc
    /\ ~lockStale
    /\ lockStale' = FALSE
    /\ UNCHANGED <<file, lockHolder, token, pc, phase, req, attempts, usuarios,
                   status, nextId, call, everBroken, tornWrite, lastWrite>>

\* The holder has not refreshed its lock for longer than stale.
LockGoesStale ==
    /\ lockHolder # NoProc
    /\ ~lockStale
    /\ lockStale' = TRUE
    /\ UNCHANGED <<file, lockHolder, token, pc, phase, req, attempts, usuarios,
                   status, nextId, call, everBroken, tornWrite, lastWrite>>

\* ---------------------------------------------------------------- the actions
\* How a value read compares with the last finished write.
Compare(val, w) ==
    IF ~w.some THEN "none"
    ELSE IF ~w.ok THEN (IF val = w.recs THEN "same-failed" ELSE "differs-failed")
    ELSE IF val = w.recs THEN "same" ELSE "differs"

WriteInProgress(p) == \E q \in Procs \ {p} : phase[q] = "write" /\ pc[q] = "mid"

\* A mutation of lerUsuarios: the read rewrites the file with what it parsed.
ReadBodyRewrites(p) ==
    /\ pc[p] = "cs"
    /\ phase[p] = "read"
    /\ \E readOk \in BOOLEAN :
         LET r == LerCorpo(file, NumOf(req[p]), readOk)
         IN  /\ usuarios' = [usuarios EXCEPT ![p] = r.val]
             /\ file' = Stringify(r.val)
             /\ call' = [call EXCEPT ![p].ran = TRUE, ![p].threw = r.threw,
                                     ![p].io = r.io, ![p].prior = Compare(r.val, lastWrite),
                                     ![p].quiet = ~WriteInProgress(p)]
    /\ pc' = [pc EXCEPT ![p] = "rel"]
    /\ UNCHANGED <<lockHolder, lockStale, token, phase, req, attempts, status,
                   nextId, everBroken, tornWrite, lastWrite>>

\* The action of lerUsuarios, run with the lock taken: fs.readFile, trim,
\* JSON.parse and the selection.  The call remembers the last finished
\* write and whether another write was under way.
ReadBody(p) ==
    /\ pc[p] = "cs"
    /\ phase[p] = "read"
    /\ \E readOk \in BOOLEAN :
         LET r == LerCorpo(file, NumOf(req[p]), readOk)
         IN  /\ usuarios' = [usuarios EXCEPT ![p] = r.val]
             /\ call' = [call EXCEPT ![p].ran = TRUE, ![p].threw = r.threw,
                                     ![p].io = r.io, ![p].prior = Compare(r.val, lastWrite),
                                     ![p].quiet = ~WriteInProgress(p)]
    /\ pc' = [pc EXCEPT ![p] = "rel"]
    /\ UNCHANGED <<file, lockHolder, lockStale, token, phase, req, attempts, status,
                   nextId, everBroken, tornWrite, lastWrite>>

\* A mutation of salvarUsuarios: the error of fs.writeFile is rethrown.
SalvarCorpoRethrows(ok) ==
    [threw |-> ~ok, io |-> IF ok THEN "ok" ELSE "writefail"]

\* How the action of salvarUsuarios ends: the error of fs.writeFile is
\* caught and logged.
SalvarCorpo(ok) ==
    [threw |-> FALSE, io |-> IF ok THEN "ok" ELSE "writefail"]

Prefix(s, k) == SubSeq(s, 1, k)

\* fs.writeFile begins: it fails at open (file untouched), or the file is
\* truncated and part of the text is written.
WriteStart(p) ==
    /\ pc[p] = "cs"
    /\ phase[p] = "write"
    /\ \E how \in {"openfail", "truncated", "half"} :
         LET json == Stringify(usuarios[p])
             r == SalvarCorpo(FALSE)
         IN  IF how = "openfail"
             THEN /\ file' = file
                  /\ call' = [call EXCEPT ![p].ran = TRUE, ![p].threw = r.threw,
                                          ![p].io = r.io]
                  /\ pc' = [pc EXCEPT ![p] = "rel"]
                  /\ lastWrite' = [some |-> TRUE, recs |-> usuarios[p], ok |-> FALSE]
             ELSE /\ file' = Prefix(json, IF how = "half" THEN Len(json) \div 2 ELSE 0)
                  /\ call' = [call EXCEPT ![p].ran = TRUE]
                  /\ pc' = [pc EXCEPT ![p] = "mid"]
                  /\ lastWrite' = lastWrite
    /\ UNCHANGED <<lockHolder, lockStale, token, phase, req, attempts, usuarios,
                   status, nextId, everBroken, tornWrite>>

\* A mutation of salvarUsuarios: fs.writeFile is not awaited, so the action
\* ends while the file still holds part of the text.
WriteFinishNotAwaited(p) ==
    /\ pc[p] = "mid"
    /\ file' = file
    /\ call' = [call EXCEPT ![p].io = "ok"]
    /\ lastWrite' = [some |-> TRUE, recs |-> usuarios[p], ok |-> TRUE]
    /\ pc' = [pc EXCEPT ![p] = "rel"]
    /\ UNCHANGED <<lockHolder, lockStale, token, phase, req, attempts, usuarios,
                   status, nextId, everBroken, tornWrite>>

\* fs.writeFile ends: the whole text is in the file, or the write failed
\* and the file keeps what had been written.
WriteFinish(p) ==
    /\ pc[p] = "mid"
    /\ \E ok \in BOOLEAN :
         LET r == SalvarCorpo(ok)
         IN  /\ file' = IF ok THEN Stringify(usuarios[p]) ELSE file
             /\ tornWrite' = (tornWrite \/ ~ok)
             /\ call' = [call EXCEPT ![p].threw = r.threw, ![p].io = r.io]
             /\ lastWrite' = [some |-> TRUE, recs |-> usuarios[p], ok |-> ok]
    /\ pc' = [pc EXCEPT ![p] = "rel"]
    /\ UNCHANGED <<lockHolder, lockStale, token, phase, req, attempts, usuarios,
                   status, nextId, everBroken>>

\* A mutation of comLock: the finally block is missing.
LiberarNever(p) ==
    /\ UNCHANGED <<lockHolder, lockStale, token, call>>

\* A mutation of comLock: the error of release() is not caught.
LiberarPropaga(p) ==
    IF token[p] = "held"
    THEN /\ lockHolder' = NoProc
         /\ lockStale' = FALSE
         /\ token' = [token EXCEPT ![p] = "none"]
         /\ call' = [call EXCEPT ![p].releases = call[p].releases + 1]
    ELSE IF token[p] = "lost"
    THEN \E fails \in BOOLEAN :
           /\ call' = [call EXCEPT ![p].releases = call[p].releases + 1,
                                   ![p].relFailed = fails,
                                   ![p].threw = call[p].threw \/ fails]
           /\ IF fails \/ lockHolder = NoProc
              THEN /\ token' = [token EXCEPT ![p] = "none"]
                   /\ UNCHANGED <<lockHolder, lockStale>>
              ELSE /\ token' = [token EXCEPT ![p] = "none", ![lockHolder] = "lost"]
                   /\ lockHolder' = NoProc
                   /\ lockStale' = FALSE
    ELSE UNCHANGED <<lockHolder, lockStale, token, call>>

\* The finally block of comLock: release() once if the lock was acquired.
\* A call whose lock was broken or removed either fails to release (the
\* error is logged) or removes the lock that is there now.
Liberar(p) ==
    IF token[p] = "held"
    THEN /\ lockHolder' = NoProc
         /\ lockStale' = FALSE
         /\ token' = [token EXCEPT ![p] = "none"]
         /\ call' = [call EXCEPT ![p].releases = call[p].releases + 1]
    ELSE IF token[p] = "lost"
    THEN \E fails \in BOOLEAN :
           /\ call' = [call EXCEPT ![p].releases = call[p].releases + 1,
                                   ![p].relFailed = fails]
           /\ IF fails \/ lockHolder = NoProc
              THEN /\ token' = [token EXCEPT ![p] = "none"]
                   /\ UNCHANGED <<lockHolder, lockStale>>
              ELSE /\ token' = [token EXCEPT ![p] = "none", ![lockHolder] = "lost"]
                   /\ lockHolder' = NoProc
                   /\ lockStale' = FALSE
    ELSE UNCHANGED <<lockHolder, lockStale, token, call>>

\* fn has ended: comLock releases and returns (or rethrows).
Release(p) ==
    /\ pc[p] = "rel"
    /\ Liberar(p)
    /\ pc' = [pc EXCEPT ![p] = "ret"]
    /\ UNCHANGED <<file, phase, req, attempts, usuarios, status, nextId, everBroken, tornWrite, lastWrite>>

\* The process of a holder dies inside its section: the finally block of
\* comLock never runs and the lock directory stays.
Crash(p) ==
    /\ pc[p] \in {"cs", "mid", "rel"}
    /\ token[p] = "held"
    /\ pc' = [pc EXCEPT ![p] = "stopped"]
    /\ UNCHANGED <<file, lockHolder, lockStale, token, phase, req, attempts, usuarios,
                   status, nextId, call, everBroken, tornWrite, lastWrite>>

\* One attempt of lockfile.lock, made when the call starts and again each
\* time a retry timer fires.
Attempt(p) == Acquire(p) \/ BreakStale(p) \/ Retry(p) \/ GiveUp(p)

\* --------------------------------------------------------------- the callers
\* A mutation of the handlers: the check of findIndex against -1 is
\* missing, and the array read is saved as it is.
MutarIgnoresMissing(r, us, next) ==
    IF r.op = "create"
    THEN [found |-> TRUE, us |-> Append(us, R(next, r.nome))]
    ELSE IF FindIndex(us, r.id) = -1
    THEN [found |-> TRUE, us |-> us]
    ELSE IF r.op = "update"
    THEN [found |-> TRUE, us |-> Atualizar(us, FindIndex(us, r.id), r.nome)]
    ELSE [found |-> TRUE, us |-> Remover(us, r.id)]

\* The caller's code after a read returned, up to its call of
\* salvarUsuarios: the array to save, or "404" when the id is not found.
\* next is the id the generator returns.
Mutar(r, us, next) ==
    IF r.op = "create"
    THEN [found |-> TRUE, us |-> Append(us, R(next, r.nome))]
    ELSE IF FindIndex(us, r.id) = -1
    THEN [found |-> FALSE, us |-> us]
    ELSE IF r.op = "update"
    THEN [found |-> TRUE, us |-> Atualizar(us, FindIndex(us, r.id), r.nome)]
    ELSE [found |-> TRUE, us |-> Remover(us, r.id)]

\* The response a handler sends once its last store call has returned.
Sucesso(r) ==
    IF IsDirect(r) THEN "returned" ELSE IF r.op = "create" THEN "201" ELSE "200"

\* A mutation of the handlers: the catch block answers as the try block.
FalhaComoSucesso(r) ==
    IF IsDirect(r) THEN "returned" ELSE IF r.op = "create" THEN "201" ELSE "200"

\* The response when a store call threw: the caller of lerUsuarios or
\* salvarUsuarios sees the rejection, a handler's catch answers 500.
Falha(r) == IF IsDirect(r) THEN "threw" ELSE "500"

Finish(p, st) ==
    /\ status' = [status EXCEPT ![p] = st]
    /\ pc' = [pc EXCEPT ![p] = "done"]
    /\ UNCHANGED <<phase, attempts, usuarios, nextId, call>>

\* comLock has returned or thrown: the caller goes on to its next await
\* or to its response.  The call of salvarUsuarios keeps the note of how
\* the array the handler read compared with the last finished write.
Continue(p) ==
    /\ pc[p] = "ret"
    /\ LET r == req[p]
           m == Mutar(r, usuarios[p], nextId)
       IN  IF call[p].threw THEN Finish(p, Falha(r))
           ELSE IF phase[p] = "write" \/ r.op \in {"read", "list"}
           THEN Finish(p, Sucesso(r))
           ELSE IF ~m.found THEN Finish(p, "404")
           ELSE /\ usuarios' = [usuarios EXCEPT ![p] = m.us]
                /\ nextId' = IF r.op = "create" THEN nextId + 1 ELSE nextId
                /\ phase' = [phase EXCEPT ![p] = "write"]
                /\ pc' = [pc EXCEPT ![p] = "acq"]
                /\ attempts' = [attempts EXCEPT ![p] = 0]
                /\ call' = [call EXCEPT ![p] = [NewCall EXCEPT !.prior = call[p].prior]]
                /\ status' = status
    /\ UNCHANGED <<file, lockHolder, lockStale, token, req, everBroken,
                   tornWrite, lastWrite>>

\* The other calls are all idle or finished.
Quiescent(p) == \A q \in Procs \ {p} : pc[q] \in {"idle", "done"}

\* Calls that overlap in time, contending for the lock.
Next ==
    \/ \E p \in Procs, r \in ConcurrentRequests : StartRequest(p, r)
    \/ \E p \in Procs : Acquire(p)
    \/ \E p \in Procs : BreakStale(p)
    \/ \E p \in Procs : Retry(p)
    \/ \E p \in Procs : GiveUp(p)
    \/ \E p \in Procs : ReadBody(p)
    \/ \E p \in Procs : WriteStart(p)
    \/ \E p \in Procs : WriteFinish(p)
    \/ \E p \in Procs : Release(p)
    \/ \E p \in Procs : Continue(p)
    \/ LockGoesStale

\* Calls made one after the other, each starting when the one before has
\* finished: the lock is always free when asked for.
SeqNextOf(RS) ==
    \/ \E p \in Procs, r \in RS : Quiescent(p) /\ StartRequest(p, r)
    \/ \E p \in Procs : Acquire(p)
    \/ \E p \in Procs : ReadBody(p)
    \/ \E p \in Procs : WriteStart(p)
    \/ \E p \in Procs : WriteFinish(p)
    \/ \E p \in Procs : Release(p)
    \/ \E p \in Procs : Continue(p)

StoreNext == SeqNextOf(StoreRequests)
HandlerNext == SeqNextOf(HandlerRequests)

\* Overlapping direct calls of lerUsuarios and salvarUsuarios.
Spec == Init /\ [][Next]_vars
\* Direct calls of lerUsuarios and salvarUsuarios, one after the other.
StoreSpec == Init /\ [][StoreNext]_vars
\* Requests to the routes of server.js, one after the other.
HandlerSpec == Init /\ [][HandlerNext]_vars

\* Requests to the routes of server.js that overlap in time: two updates
\* of the same record with different values.
UpdateRequests == {Req("update", 0, 1, n, <<>>) : n \in Names}
RaceNextOf(RS) ==
    \/ \E p \in Procs, r \in RS : StartRequest(p, r)
    \/ \E p \in Procs : Acquire(p)
    \/ \E p \in Procs : Retry(p)
    \/ \E p \in Procs : GiveUp(p)
    \/ \E p \in Procs : ReadBody(p)
    \/ \E p \in Procs : WriteStart(p)
    \/ \E p \in Procs : WriteFinish(p)
    \/ \E p \in Procs : Release(p)
    \/ \E p \in Procs : Continue(p)
UpdateNext == RaceNextOf(UpdateRequests)
\* Overlapping updates; no lock is held long enough to go stale.
UpdateSpec == Init /\ [][UpdateNext]_vars

\* Overlapping creations, updates and deletions.
IdRequests ==
    {Req("create", 0, 0, 2, <<>>), Req("update", 0, 1, 1, <<>>),
     Req("delete", 0, 1, Undef, <<>>)}
\* Every call waits until the lock is free and takes it: the waits are
\* short enough for the retries.
IdNext ==
    \/ \E p \in Procs, r \in IdRequests : StartRequest(p, r)
    \/ \E p \in Procs : Acquire(p)
    \/ \E p \in Procs : ReadBody(p)
    \/ \E p \in Procs : WriteStart(p)
    \/ \E p \in Procs : WriteFinish(p)
    \/ \E p \in Procs : Release(p)
    \/ \E p \in Procs : Continue(p)
IdSpec == Init /\ [][IdNext]_vars

\* Overlapping requests to every route, some of which wait for the lock
\* until their retries run out.
BusyRequests ==
    {Req("list", NaN, 0, Undef, <<>>), Req("create", 0, 0, 2, <<>>),
     Req("delete", 0, 1, Undef, <<>>)}
BusyNext == RaceNextOf(BusyRequests)
BusySpec == Init /\ [][BusyNext]_vars

\* Overlapping calls whose holder may die, with the scheduling of Node: a
\* pending attempt, a pending step of an action, a pending release and a
\* pending continuation are eventually run, and time passes.
LiveNext == Next \/ \E p \in Procs : Crash(p)
Fairness ==
    /\ \A p \in Procs :
         /\ WF_vars(Attempt(p))
         /\ WF_vars(ReadBody(p))
         /\ WF_vars(WriteStart(p))
         /\ WF_vars(WriteFinish(p))
         /\ WF_vars(Release(p))
         /\ WF_vars(Continue(p))
    /\ WF_vars(LockGoesStale)
LiveSpec == Init /\ [][LiveNext]_vars /\ Fairness

\* =================================================================== claims
InSection(p) == pc[p] \in {"cs", "mid", "rel"}
Returned(p) == pc[p] \in {"ret", "done"}
IsRead(p) == phase[p] = "read" /\ pc[p] # "idle"
IsWrite(p) == phase[p] = "write" /\ pc[p] # "idle"

\* C1 as stated: in every reachable state at most one call, reader or
\* writer, is inside the critical section of comLock.
C1_MutualExclusion == Cardinality({p \in Procs : InSection(p)}) <= 1

\* C1 amended: until a lock has been broken as stale, at most one call,
\* reader or writer, is inside the critical section of comLock.
C1_MutualExclusionUntilBroken ==
    ~everBroken => Cardinality({p \in Procs : InSection(p)}) <= 1

\* C1 witness: a reader is inside the section while another reader has
\* been turned away at least once, and no lock was ever broken.
C1_Witness ==
    /\ ~everBroken
    /\ \E p, q \in Procs :
         /\ p # q
         /\ IsRead(p) /\ InSection(p)
         /\ IsRead(q) /\ pc[q] = "acq" /\ attempts[q] > 0

\* The parts of C2: the file is empty or a complete array whenever the
\* lock is free; no read ran while a write was under way or met a document
\* that does not parse; a write under way has not released; a write that
\* is about to release has left its whole text in the file.
FileWholeWhenUnlocked == lockHolder = NoProc => WellFormed(file)
NoTornRead ==
    \A p \in Procs :
        IsRead(p) /\ call[p].ran => call[p].quiet /\ call[p].io # "parsefail"
WriteEndsBeforeRelease ==
    \A p \in Procs :
        /\ pc[p] = "mid" => call[p].releases = 0
        /\ IsWrite(p) /\ call[p].releases > 0 => call[p].io \in {"ok", "writefail"}
WholeAtRelease ==
    \A p \in Procs :
        IsWrite(p) /\ pc[p] = "rel" /\ call[p].io = "ok" => file = Stringify(usuarios[p])

C3_ScopedRelease ==
    \A p \in Procs :
        /\ Returned(p) /\ call[p].acquired => call[p].releases = 1 /\ call[p].ran
        /\ pc[p] \in {"acq", "cs", "mid", "rel"} => call[p].releases = 0
        /\ ~call[p].acquired => call[p].releases = 0
        /\ pc[p] \in {"idle", "ret", "done"} => token[p] = "none" /\ lockHolder # p

\* C3 witness: a write has returned from comLock after acquiring, with its
\* one release made and the lock free again.
C3_Witness ==
    \E p \in Procs :
        /\ IsWrite(p) /\ pc[p] = "ret" /\ call[p].acquired /\ call[p].io = "ok"
        /\ call[p].releases = 1 /\ ~call[p].relFailed /\ lockHolder = NoProc

\* C4: a call that exhausts its acquisition attempts fails with the
\* acquisition error; its action has not run, no release was attempted,
\* and no step of its acquisition changes the file.
C4_AcquisitionFailure ==
    /\ [](\A p \in Procs :
            attempts[p] > Retries =>
                /\ Returned(p) /\ call[p].threw
                /\ ~call[p].acquired /\ ~call[p].ran /\ call[p].releases = 0
                /\ token[p] = "none"
                /\ pc[p] = "done" => status[p] = "threw")
    /\ [][\A p \in Procs :
            pc[p] = "acq" /\ attempts'[p] > attempts[p] => file' = file]_vars

\* C4 witness: a call has given up after its last attempt and its caller
\* has seen the rejection.
C4_Witness ==
    \E p \in Procs :
        /\ attempts[p] > Retries /\ pc[p] = "done" /\ status[p] = "threw"
        /\ ~call[p].ran

\* What C5 says read(limit) returns for the stored array arr.
Expected(arr, limit) ==
    IF limit = 0 \/ limit > Len(arr) THEN arr
    ELSE IF limit > 0 THEN SubSeq(arr, 1, limit)
    ELSE <<>>

\* A read whose action has loaded and parsed the stored collection and
\* that has not yet handed its result on; the file is still what it read.
HasSelected(p) ==
    /\ req[p].op = "read" /\ pc[p] \in {"rel", "ret"}
    /\ call[p].io = "ok"

\* C5: for a stored collection of length L, read(limit) returns all L
\* records in order when limit = 0 or limit > L, the first limit records
\* when 0 < limit <= L, and nothing when limit < 0.
C5_LimitSelection ==
    \A p \in Procs :
        HasSelected(p) =>
            /\ Parse(Trim(file)).ok
            /\ usuarios[p] = Expected(Parse(Trim(file)).val, req[p].num)

\* C5 witness: with two records stored, one read has returned the first
\* record for limit 1 and another nothing for a negative limit.
C5_Witness ==
    \E p, q \in Procs :
        /\ HasSelected(p) /\ pc[q] = "done" /\ req[q].op = "read" /\ call[q].io = "ok"
        /\ Len(Parse(Trim(file)).val) = 2
        /\ req[p].num = 1 /\ usuarios[p] = <<Parse(Trim(file)).val[1]>>
        /\ req[q].num < 0 /\ usuarios[q] = <<>>

\* A read(0) whose action ran after some write's action had finished, with
\* no write under way.
ReadAfterWrite(p) ==
    /\ req[p].op = "read" /\ req[p].num = 0
    /\ call[p].ran /\ call[p].quiet /\ call[p].prior # "none"

C7_ReadLeavesFile ==
    [][\A p \in Procs :
         req[p].op = "read" /\ (pc'[p] # pc[p] \/ attempts'[p] # attempts[p])
            => file' = file]_vars

\* C7 witness: a read has gone through a file that does not parse, and
\* the file is still that.
C7_Witness ==
    \E p \in Procs :
        /\ req[p].op = "read" /\ pc[p] = "ret" /\ call[p].io = "parsefail"
        /\ ~WellFormed(file)

C9_EmptyAndMalformed ==
    \A p \in Procs :
        /\ req[p].op = "read" /\ pc[p] \in {"rel", "ret"}
             /\ (Trim(file) = <<>> \/ ~Parse(Trim(file)).ok)
             => usuarios[p] = <<>> /\ ~call[p].threw
        /\ req[p].op = "read" /\ pc[p] = "done" /\ call[p].ran
             /\ call[p].io \in {"empty", "parsefail"}
             => usuarios[p] = <<>> /\ status[p] = "returned"

\* C9 witness: a read with a limit other than 0 has come back with
\* nothing and no error from content that is not empty and does not parse.
C9_Witness ==
    \E q \in Procs :
        /\ req[q].op = "read" /\ pc[q] = "ret" /\ call[q].io = "parsefail"
        /\ req[q].num # 0 /\ usuarios[q] = <<>> /\ ~call[q].threw
        /\ Trim(file) # <<>> /\ ~Parse(Trim(file)).ok

Abandoned(p) == pc[p] = "stopped" /\ lockHolder = p

\* C11: every call that asks for the lock eventually either enters its
\* critical section or fails, after at most Retries retries; the lock of
\* a holder that stopped without releasing eventually becomes stale, and
\* once it is stale a call that is asking for the lock obtains it.
C11_NoPermanentBlocking ==
    /\ \A p \in Procs :
         (pc[p] = "acq") ~> (pc[p] = "cs" \/ (pc[p] = "ret" /\ call[p].threw))
    /\ \A p \in Procs : Abandoned(p) ~> (lockStale \/ lockHolder # p)
    /\ \A p, q \in Procs :
         (Abandoned(p) /\ lockStale /\ pc[q] = "acq") ~> (lockHolder # p)
    /\ [](\A p \in Procs : attempts[p] <= Retries + 1)

\* C11 witness: a holder stopped inside its section, and a later call has
\* broken its lock and holds it.
C11_Witness ==
    \E p, q \in Procs :
        /\ pc[p] = "stopped" /\ token[p] = "lost"
        /\ lockHolder = q /\ call[q].acquired /\ InSection(q)

\* An update or delete request.
ById(p) == req[p].op \in {"update", "delete"}
\* The read of lerUsuarios(0) has returned to the handler of request p.
HasRead(p) == phase[p] = "read" /\ pc[p] \in {"ret", "done"} /\ ~call[p].threw

\* The parts of C12 that hold of one request: an update or delete whose
\* id matches no record of the collection it read answers 404, and only
\* such a request does, without having called salvarUsuarios.
NotFoundAnswers404 ==
    \A p \in Procs :
        /\ ById(p) /\ HasRead(p) /\ FindIndex(usuarios[p], req[p].id) = -1
             => (pc[p] = "done" => status[p] = "404")
        /\ status[p] = "404"
             => /\ ById(p) /\ HasRead(p) /\ pc[p] = "done"
                /\ FindIndex(usuarios[p], req[p].id) = -1
\* No step of an update or delete that stays in its read changes the
\* file, and the step after a read that found no match is the 404.
NotFoundLeavesFile ==
    \A p \in Procs :
        /\ ById(p) /\ phase[p] = "read" /\ phase'[p] = "read" /\ pc'[p] # pc[p]
             => file' = file
        /\ ById(p) /\ HasRead(p) /\ FindIndex(usuarios[p], req[p].id) = -1
             /\ pc'[p] # pc[p]
             => phase'[p] = "read" /\ pc'[p] = "done" /\ status'[p] = "404"
\* The same request made right after one answered 404 is answered 404.
RepeatedAfter(p) ==
    /\ p + 1 \in Procs /\ status[p] = "404" /\ req[p + 1] = req[p]
    /\ pc[p + 1] = "done"

Raced(p, q) ==
    /\ p # q
    /\ req[p].op = "update" /\ req[q].op = "update"
    /\ req[p].id = req[q].id /\ req[p].nome # req[q].nome
    /\ IsWrite(p) /\ pc[p] = "done" /\ call[p].io = "ok" /\ call[p].prior = "none"
    /\ IsWrite(q) /\ pc[q] = "done" /\ call[q].io = "ok" /\ call[q].prior = "none"
\* The value the stored record with this id has.
StoredNome(id) == Stored(file)[FindIndex(Stored(file), id) + 1].nome

\* C13: when two updates of the same id have both read the same snapshot
\* before either wrote, both answer 200, and once the writes are over the
\* file holds the array of the one that wrote last: the value of the
\* other is not stored.
C13_LostUpdate ==
    \A p, q \in Procs :
        Raced(p, q) =>
            /\ status[p] = "200" /\ status[q] = "200"
            /\ lastWrite.ok /\ lastWrite.recs = usuarios[q] /\ ~tornWrite
                 /\ (\A r \in Procs : pc[r] # "mid")
                 => /\ Stored(file) = usuarios[q]
                    /\ StoredNome(req[q].id) = req[q].nome
                    /\ StoredNome(req[p].id) # req[p].nome

\* C13 witness: both updates have answered 200 after reading the same
\* snapshot, and the file holds the second writer's value only.
C13_Witness ==
    \E p, q \in Procs :
        /\ Raced(p, q) /\ status[p] = "200" /\ status[q] = "200"
        /\ lastWrite.recs = usuarios[q] /\ file = Stringify(usuarios[q])
        /\ StoredNome(req[p].id) = req[q].nome

\* The ids of an array, in order, and whether they differ pairwise.
IdsOf(us) == [i \in 1..Len(us) |-> us[i].id]
UniqueIds(us) == \A i, j \in 1..Len(us) : i # j => us[i].id # us[j].id
\* A create whose id has been generated, and that id.
HasGenerated(p) == req[p].op = "create" /\ phase[p] = "write"
GeneratedId(p) == usuarios[p][Len(usuarios[p])].id
\* A record found at start-up, possibly renamed by an update of its id.
IsOriginal(u) ==
    \E i \in 1..Len(InitUsers) :
        /\ u.id = InitUsers[i].id
        /\ \/ u.nome = InitUsers[i].nome
           \/ \E p \in Procs :
                 req[p].op = "update" /\ req[p].id = u.id /\ req[p].nome = u.nome

\* C14: with a generator that returns a fresh id on every call, under any
\* interleaving of create, update and delete requests the stored records
\* and the arrays the handlers hold have pairwise different ids; the ids
\* generated for two creations differ; a stored record that has a
\* generated id is the record created with it, any other is one of the
\* original records under its original id; an update leaves the ids of
\* its array as they are.
C14_IdsUniqueAndStable ==
    /\ [](LET st == Stored(file)
          IN  /\ UniqueIds(st)
              /\ \A p \in Procs : UniqueIds(usuarios[p])
              /\ \A p, q \in Procs :
                    p # q /\ HasGenerated(p) /\ HasGenerated(q)
                        => GeneratedId(p) # GeneratedId(q)
              /\ \A i \in 1..Len(st) :
                    \/ \E p \in Procs :
                         /\ HasGenerated(p) /\ st[i].id = GeneratedId(p)
                         /\ st[i].nome = req[p].nome /\ st[i].id >= FirstFreshId
                    \/ IsOriginal(st[i]))
    /\ [][\A p \in Procs :
            req[p].op = "update" /\ pc[p] = "ret" /\ pc'[p] = "acq"
                => IdsOf(usuarios'[p]) = IdsOf(usuarios[p])]_vars

\* C14 witness: two creations that overlapped have both been saved, next
\* to the two original records, one of them renamed by an update.
C14_Witness ==
    \E p, q \in Procs :
        /\ p # q /\ HasGenerated(p) /\ HasGenerated(q)
        /\ pc[p] = "done" /\ pc[q] = "done" /\ call[q].prior = "none"
        /\ Len(Stored(file)) = Len(InitUsers) + 2
        /\ UniqueIds(Stored(file))

\* C15 as stated: a comLock call makes at most 5 acquisition attempts in
\* total before it gives up.
C15_AtMostFiveAttempts == \A p \in Procs : attempts[p] <= Retries

\* C15 amended: a comLock call that keeps finding the lock held makes at
\* most 6 acquisition attempts in total, the first one and 5 retries; it
\* gives up with the terminal failure exactly when the 6th has failed.
C15_FirstAttemptAndFiveRetries ==
    \A p \in Procs :
        /\ attempts[p] <= Retries + 1
        /\ pc[p] = "acq" => attempts[p] <= Retries
        /\ call[p].threw /\ ~call[p].acquired <=> attempts[p] = Retries + 1

\* C15 witness: a call has given up after its 6th failed attempt while
\* the holder, whose lock never went stale, is still inside its section.
C15_Witness ==
    \E p, q \in Procs :
        /\ p # q /\ attempts[p] = Retries + 1 /\ pc[p] = "ret" /\ call[p].threw
        /\ lockHolder = q /\ InSection(q) /\ ~lockStale /\ ~everBroken

\* C16: the release of comLock leaves the outcome of the action as it is,
\* whether release() fails or not; a call whose release failed has not
\* thrown, and its caller gets what the action returned.
C16_ReleaseFailureNotPropagated ==
    /\ [][\A p \in Procs :
            pc[p] = "rel" /\ pc'[p] = "ret"
                => /\ call'[p].threw = call[p].threw
                   /\ call'[p].io = call[p].io
                   /\ usuarios'[p] = usuarios[p]]_vars
    /\ [](\A p \in Procs :
            call[p].relFailed =>
                /\ ~call[p].threw /\ call[p].ran /\ call[p].releases = 1
                /\ pc[p] = "done" => status[p] = "returned")

\* C16 witness: a read whose lock was broken as stale while it was inside
\* has failed to release and has still returned the records it read.
C16_Witness ==
    \E p \in Procs :
        /\ req[p].op = "read" /\ call[p].relFailed /\ everBroken
        /\ pc[p] = "done" /\ status[p] = "returned"
        /\ call[p].io = "ok" /\ usuarios[p] # <<>>

\* C17: a call that asks for the lock while its holder, still inside its
\* section, has held it for longer than the stale threshold breaks the
\* lock and enters its own section; the holder goes on inside its own, so
\* two sections are active at once.
C17_StaleBreakDefeatsExclusion ==
    [][\A p, q \in Procs :
         p # q /\ pc[p] = "acq" /\ lockHolder = q /\ lockStale /\ InSection(q)
               /\ pc'[p] # pc[p]
            => /\ pc'[p] = "cs" /\ token'[p] = "held" /\ lockHolder' = p
               /\ pc'[q] = pc[q] /\ token'[q] = "lost"
               /\ everBroken']_vars

\* C17 witness: a writer that is part-way through fs.writeFile has lost
\* its lock to a reader that is now inside its own section.
C17_Witness ==
    \E p, q \in Procs :
        /\ p # q /\ IsWrite(q) /\ pc[q] = "mid" /\ token[q] = "lost"
        /\ IsRead(p) /\ pc[p] = "cs" /\ token[p] = "held" /\ lockHolder = p

\* A request to a route of server.js.
IsHandler(p) == req[p].op \in {"list", "create", "update", "delete"}
\* lockfile.lock rejected in the step that request p is in or ended in.
AcquisitionFailed(p) == attempts[p] = Retries + 1

\* C18: a request whose read step or write step fails to acquire the lock
\* answers 500 and nothing else, and only such a request answers 500; the
\* action of the failed step has not run; after a failed read step the
\* handler answers without changing the file or calling salvarUsuarios.
C18_FailureMapping ==
    /\ [](\A p \in Procs :
            IsHandler(p) =>
                /\ AcquisitionFailed(p) <=> call[p].threw
                /\ AcquisitionFailed(p) => ~call[p].ran /\ pc[p] \in {"ret", "done"}
                /\ pc[p] = "done" =>
                     (status[p] = "500" <=> AcquisitionFailed(p))
                /\ status[p] \in {"200", "201"} => ~AcquisitionFailed(p))
    /\ [][\A p \in Procs :
            IsHandler(p) /\ AcquisitionFailed(p) /\ pc'[p] # pc[p]
                => /\ pc'[p] = "done" /\ status'[p] = "500"
                   /\ phase'[p] = phase[p] /\ file' = file]_vars

\* C18 witness: a create has answered 500 because its read step could not
\* get the lock, which another request still holds; it saved nothing.
C18_Witness ==
    \E p, q \in Procs :
        /\ p # q /\ req[p].op = "create" /\ phase[p] = "read"
        /\ pc[p] = "done" /\ status[p] = "500" /\ AcquisitionFailed(p)
        /\ lockHolder = q /\ InSection(q)
        /\ usuarios[p] = <<>> /\ ~lastWrite.some

\* The array with its last element taken off.
Front(us) == SubSeq(us, 1, Len(us) - 1)

\* C19 as stated: a create that runs alone and answers 201 leaves every
\* record stored before it in place and in order, with the new record
\* last, also when its read hit a file-read or parse failure: the array it
\* is about to save is the stored collection followed by the new record,
\* and once it has answered 201 that array is what is stored.
C19_CreatePreservesRecords ==
    \A p \in Procs :
        req[p].op = "create" =>
            /\ IsWrite(p) /\ pc[p] \in {"acq", "cs"}
                 => /\ Front(usuarios[p]) = Stored(file)
                    /\ usuarios[p][Len(usuarios[p])].nome = req[p].nome
            /\ pc[p] = "done" /\ status[p] = "201" => Stored(file) = usuarios[p]

\* Request p has read and changed its array and has not begun to save it:
\* with no other request in flight the file is still what it read.
AboutToSave(p) == IsWrite(p) /\ pc[p] \in {"acq", "cs"}
\* Request p has answered 200 after a write that succeeded.
Saved(p) == IsWrite(p) /\ pc[p] = "done" /\ status[p] = "200" /\ call[p].io = "ok"
\* No write has begun since the array of request p was saved.
LastSaved(p) ==
    /\ Saved(p) /\ lastWrite.ok /\ lastWrite.recs = usuarios[p]
    /\ \A q \in Procs : pc[q] # "mid"

\* C20: with no other request in flight, the array an update of an
\* existing id saves has the length and the ids of the stored collection,
\* in the same order, and differs from it at most in the name of the first
\* record with that id; the array a delete of an existing id saves is the
\* stored collection without the records that have that id, the others in
\* their order; after the write succeeded, and until the next write, that
\* array is what is stored.
C20_OnlyTheTarget ==
    \A p \in Procs :
        LET st == Stored(file)
            us == usuarios[p]
            k == FindIndex(st, req[p].id) + 1
            Other(u) == u.id # req[p].id
        IN  /\ req[p].op = "update" /\ AboutToSave(p) =>
                 /\ Len(us) = Len(st) /\ k >= 1
                 /\ \A i \in 1..Len(st) : i # k => us[i] = st[i]
                 /\ us[k].id = st[k].id
                 /\ us[k].nome = IF req[p].nome # Undef THEN req[p].nome ELSE st[k].nome
            /\ req[p].op = "delete" /\ AboutToSave(p) =>
                 /\ k >= 1
                 /\ us = SelectSeq(st, Other)
            /\ ById(p) /\ LastSaved(p) => st = us

\* C20 witness: an update of record 1 and then a delete of record 1 have
\* both been saved; the other record is stored as it was at the start.
C20_Witness ==
    \E p, q \in Procs :
        /\ req[p].op = "update" /\ Saved(p) /\ req[p].id = 1
        /\ req[q].op = "delete" /\ Saved(q) /\ req[q].id = 1
        /\ Stored(file) = Tail(InitUsers)

====
